---- MODULE Spec2Model ----
(***************************************************************************)
(* Seat allocation, availability view and payment reconciliation of the    *)
(* ATT Transport bus booking application.                                  *)
(*                                                                         *)
(* The durable state is the Postgres schema of the first migration (the    *)
(* seats, bookings, destinations and pickup_points tables, the foreign     *)
(* keys of bookings, the partial unique index idx_unique_active_booking    *)
(* and the get_seat_status RPC).  The writers are the public BookingForm,  *)
(* the admin Bookings, Seats, Destinations and Pickup Points screens and   *)
(* the Hubtel payment webhook; the create-payment function writes nothing. *)
(*                                                                         *)
(* Environment assumptions: the storage layer is reachable (no transient   *)
(* outage), row level security lets each caller perform the statement it   *)
(* issues, and the non-seat fields of the booking form pass the zod schema.*)
(***************************************************************************)
EXTENDS Integers, Sequences, FiniteSets, TLC

VARIABLES seats, bookings, destinations, pickup_points, form, adminList,
          request, response

vars == <<seats, bookings, destinations, pickup_points, form, adminList,
          request, response>>

(* ---------------------------------------------------------------------- *)
(* Bounds and input domains                                                *)
(* ---------------------------------------------------------------------- *)

\* Largest number of booking rows the ledger holds in a run.
MaxBookings == 2

NULL == "NULL"

Buses == {"b1", "b2"}

\* Browser sessions showing the public booking form.
Clients == {"c1", "c2"}

\* Rows seeded in the destinations table: id to price and active flag.
SeedDestinations ==
  [d1 |-> [price |-> 80, active |-> TRUE],
   d2 |-> [price |-> 120, active |-> TRUE]]

\* Ids of the rows seeded in the pickup_points table.
SeedPickupPoints == {"p1", "p2"}

\* Prices an operator types into the destination dialog.
Prices == {80, 100}

\* The passenger, destination and pickup point a session fills in (fixed
\* per session).
Details ==
  [c1 |-> [full_name |-> "Ama", destination_id |-> "d1", pickup_point_id |-> "p1"],
   c2 |-> [full_name |-> "Kofi", destination_id |-> "d2", pickup_point_id |-> "p2"]]

\* Identities handed out by gen_random_uuid(), in the order they are drawn.
BookingIds == <<"B1", "B2", "B3", "B4">>

\* A well-formed identity that no booking row ever carries.
UnknownId == "B9"

\* A reference that is not a uuid at all.
MalformedId == "not-a-uuid"

UNDEF == "undefined"

\* No confirmation SMS was scheduled by the step.
NoSms == "none"

\* Output of a step that answers no request and shows no toast.
NoResponse == [op |-> "none", result |-> NULL, error |-> NULL, sms |-> NoSms]

\* No create-payment request is being served: the requests in flight are
\* kept as a sequence of at most one.
NoRequest == <<>>

ActiveStatuses == {"pending", "paid"}

(* ---------------------------------------------------------------------- *)
(* Storage layer: tables, constraints and the seat status RPC              *)
(* ---------------------------------------------------------------------- *)

\* Seat rows seeded for the buses: one row per seat number, all enabled.
SeedSeats ==
  { [bus_id |-> "b1", seat_number |-> 1, active |-> TRUE],
    [bus_id |-> "b1", seat_number |-> 2, active |-> TRUE],
    [bus_id |-> "b2", seat_number |-> 1, active |-> TRUE] }

\* UNIQUE (bus_id, seat_number) of the seats table.
seats_bus_id_seat_number_key(seatRows) ==
  \A r, q \in seatRows :
    (r.bus_id = q.bus_id /\ r.seat_number = q.seat_number) => r = q

\* The index had its predicate been WHERE status = 'pending'.
idx_unique_pending_only(rows) ==
  \A i, j \in 1..Len(rows) :
    (i # j /\ rows[i].status = "pending" /\ rows[j].status = "pending")
      => ~(rows[i].bus_id = rows[j].bus_id /\ rows[i].seat_number = rows[j].seat_number)

\* The index had it no predicate at all (cancelled rows keep their seat).
idx_unique_all_statuses(rows) ==
  \A i, j \in 1..Len(rows) :
    i # j => ~(rows[i].bus_id = rows[j].bus_id /\ rows[i].seat_number = rows[j].seat_number)

\* The index had it been keyed on seat_number alone.
idx_unique_seat_number_only(rows) ==
  \A i, j \in 1..Len(rows) :
    (i # j /\ rows[i].status \in ActiveStatuses /\ rows[j].status \in ActiveStatuses)
      => rows[i].seat_number # rows[j].seat_number

\* The index had it been keyed on bus_id alone.
idx_unique_bus_only(rows) ==
  \A i, j \in 1..Len(rows) :
    (i # j /\ rows[i].status \in ActiveStatuses /\ rows[j].status \in ActiveStatuses)
      => rows[i].bus_id # rows[j].bus_id

\* CREATE UNIQUE INDEX ... ON bookings (bus_id, seat_number)
\* WHERE status IN ('pending','paid'): TRUE when the rows satisfy the index.
idx_unique_active_booking(rows) ==
  \A i, j \in 1..Len(rows) :
    (i # j /\ rows[i].status \in ActiveStatuses /\ rows[j].status \in ActiveStatuses)
      => ~(rows[i].bus_id = rows[j].bus_id /\ rows[i].seat_number = rows[j].seat_number)

\* Value of a column of an inserted row: the supplied one, else the default.
ColumnOr(payload, col, default) ==
  IF col \in DOMAIN payload THEN payload[col] ELSE default

\* The row built had the status column defaulted to 'paid'.
NewBookingRowDefaultPaid(rows, payload) ==
  [ id                |-> BookingIds[Len(rows) + 1],
    full_name         |-> payload.full_name,
    pickup_point_id   |-> payload.pickup_point_id,
    destination_id    |-> payload.destination_id,
    bus_id            |-> payload.bus_id,
    seat_number       |-> payload.seat_number,
    amount            |-> payload.amount,
    status            |-> ColumnOr(payload, "status", "paid"),
    payment_reference |-> ColumnOr(payload, "payment_reference", NULL),
    receipt_url       |-> ColumnOr(payload, "receipt_url", NULL) ]

\* The row an INSERT INTO bookings builds from the supplied columns.
NewBookingRow(rows, payload) ==
  [ id                |-> BookingIds[Len(rows) + 1],
    full_name         |-> payload.full_name,
    pickup_point_id   |-> payload.pickup_point_id,
    destination_id    |-> payload.destination_id,
    bus_id            |-> payload.bus_id,
    seat_number       |-> payload.seat_number,
    amount            |-> payload.amount,
    status            |-> ColumnOr(payload, "status", "pending"),
    payment_reference |-> ColumnOr(payload, "payment_reference", NULL),
    receipt_url       |-> ColumnOr(payload, "receipt_url", NULL) ]

\* The insert had the table no unique index: every row is accepted.
BookingsInsertUnchecked(rows, payload) ==
  [error |-> NULL, rows |-> Append(rows, NewBookingRow(rows, payload))]

\* supabase.from("bookings").insert(payload): the statement is atomic and is
\* rejected with unique_violation (23505) when the index would be broken.
BookingsInsert(rows, payload) ==
  LET candidate == Append(rows, NewBookingRow(rows, payload))
  IN  IF idx_unique_active_booking(candidate)
        THEN [error |-> NULL, rows |-> candidate]
        ELSE [error |-> "23505", rows |-> rows]

\* The foreign key had it ignored cancelled booking rows.
bookings_destination_id_fkey_active_only(destinationRows, bookingRows) ==
  \A i \in 1..Len(bookingRows) :
    bookingRows[i].status \in ActiveStatuses
      => bookingRows[i].destination_id \in DOMAIN destinationRows

\* bookings.destination_id REFERENCES destinations(id), over given table
\* contents.
bookings_destination_id_fkey(destinationRows, bookingRows) ==
  \A i \in 1..Len(bookingRows) : bookingRows[i].destination_id \in DOMAIN destinationRows

\* bookings.pickup_point_id REFERENCES pickup_points(id), over given table
\* contents.
bookings_pickup_point_id_fkey(pickupRows, bookingRows) ==
  \A i \in 1..Len(bookingRows) : bookingRows[i].pickup_point_id \in pickupRows

\* A row after SET of the columns named in updates.
ApplyUpdates(row, updates) ==
  [k \in DOMAIN row |-> IF k \in DOMAIN updates THEN updates[k] ELSE row[k]]

\* id UUID PRIMARY KEY: a filter value must have uuid syntax.
UuidSyntax(id) == id # MalformedId

\* The update had it checked the new version of a row against the index as
\* if it were one more row.
BookingsUpdateAsInsert(rows, id, updates) ==
  LET candidate == [i \in 1..Len(rows) |->
                      IF rows[i].id = id THEN ApplyUpdates(rows[i], updates)
                                         ELSE rows[i]]
      matched   == {i \in 1..Len(rows) : rows[i].id = id}
  IN  IF ~UuidSyntax(id)
        THEN [error |-> "22P02", rows |-> rows, matched |-> {}]
        ELSE IF \A i \in matched :
                  idx_unique_active_booking(Append(rows, candidate[i]))
               THEN [error |-> NULL, rows |-> candidate, matched |-> matched]
               ELSE [error |-> "23505", rows |-> rows, matched |-> {}]

\* supabase.from("bookings").update(updates).eq("id", id): atomic; rejected
\* as a whole with invalid_text_representation (22P02) when the filter is
\* not a uuid and with unique_violation (23505) when the index would be
\* broken.
BookingsUpdate(rows, id, updates) ==
  LET candidate == [i \in 1..Len(rows) |->
                      IF rows[i].id = id THEN ApplyUpdates(rows[i], updates)
                                         ELSE rows[i]]
      matched   == {i \in 1..Len(rows) : rows[i].id = id}
  IN  IF ~UuidSyntax(id)
        THEN [error |-> "22P02", rows |-> rows, matched |-> {}]
        ELSE IF idx_unique_active_booking(candidate)
               THEN [error |-> NULL, rows |-> candidate, matched |-> matched]
               ELSE [error |-> "23505", rows |-> rows, matched |-> {}]

\* ORDER BY seat_number over a set of rows.
RECURSIVE OrderBySeatNumber(_)
OrderBySeatNumber(S) ==
  IF S = {} THEN <<>>
  ELSE LET m == CHOOSE r \in S : \A q \in S : r.seat_number <= q.seat_number
       IN  <<m>> \o OrderBySeatNumber(S \ {m})

\* The query had its CASE tested b.status = 'paid' alone.
SeatStatusQueryPaidOnly(seatRows, bookingRows, _bus_id) ==
  LET selected == OrderBySeatNumber({s \in seatRows : s.bus_id = _bus_id})
  IN  [k \in 1..Len(selected) |->
         [ seat_number |-> selected[k].seat_number,
           is_active   |-> selected[k].active,
           status      |-> IF \E i \in 1..Len(bookingRows) :
                                /\ bookingRows[i].bus_id = selected[k].bus_id
                                /\ bookingRows[i].seat_number = selected[k].seat_number
                                /\ bookingRows[i].status = "paid"
                           THEN "taken" ELSE "available" ]]

\* The query had it no WHERE s.bus_id = _bus_id.
SeatStatusQueryAllBuses(seatRows, bookingRows, _bus_id) ==
  LET selected == OrderBySeatNumber(seatRows)
  IN  [k \in 1..Len(selected) |->
         [ seat_number |-> selected[k].seat_number,
           is_active   |-> selected[k].active,
           status      |-> IF \E i \in 1..Len(bookingRows) :
                                /\ bookingRows[i].bus_id = selected[k].bus_id
                                /\ bookingRows[i].seat_number = selected[k].seat_number
                                /\ bookingRows[i].status \in ActiveStatuses
                           THEN "taken" ELSE "available" ]]

\* The query had it also selected the name on the booking holding the seat.
SeatStatusQueryWithPassenger(seatRows, bookingRows, _bus_id) ==
  LET selected == OrderBySeatNumber({s \in seatRows : s.bus_id = _bus_id})
      holders(k) == {i \in 1..Len(bookingRows) :
                       /\ bookingRows[i].bus_id = selected[k].bus_id
                       /\ bookingRows[i].seat_number = selected[k].seat_number
                       /\ bookingRows[i].status \in ActiveStatuses}
  IN  [k \in 1..Len(selected) |->
         [ seat_number |-> selected[k].seat_number,
           is_active   |-> selected[k].active,
           status      |-> IF holders(k) # {} THEN "taken" ELSE "available",
           full_name   |-> IF holders(k) # {}
                             THEN bookingRows[CHOOSE i \in holders(k) : TRUE].full_name
                             ELSE NULL ]]

\* Body of public.get_seat_status(_bus_id) over given table contents.
SeatStatusQuery(seatRows, bookingRows, _bus_id) ==
  LET selected == OrderBySeatNumber({s \in seatRows : s.bus_id = _bus_id})
  IN  [k \in 1..Len(selected) |->
         [ seat_number |-> selected[k].seat_number,
           is_active   |-> selected[k].active,
           status      |-> IF \E i \in 1..Len(bookingRows) :
                                /\ bookingRows[i].bus_id = selected[k].bus_id
                                /\ bookingRows[i].seat_number = selected[k].seat_number
                                /\ bookingRows[i].status \in ActiveStatuses
                           THEN "taken" ELSE "available" ]]

\* supabase.rpc("get_seat_status", { _bus_id }) against the current tables.
get_seat_status(_bus_id) == SeatStatusQuery(seats, bookings, _bus_id)

(* ---------------------------------------------------------------------- *)
(* Public booking form (BookingForm, SeatMap)                              *)
(* ---------------------------------------------------------------------- *)

\* The form has no insert in flight (a record, as a payload is).
NoPayload == [none |-> TRUE]

\* State of a freshly mounted BookingForm (useState / useForm defaults).
FreshForm ==
  [ selectedBus  |-> NULL,      \* useState selectedBus
    bus_id       |-> NULL,      \* form value bus_id
    seat_number  |-> 0,         \* form value seat_number (0: unset)
    selectedSeat |-> 0,         \* useState selectedSeat (0: null)
    seatStatus   |-> <<>>,      \* useState seatStatus
    destinations |-> <<>>,      \* useState destinations: id to price
    selectedDestination |-> NULL, \* useState selectedDestination
    destination_id |-> NULL,    \* form value destination_id
    amount       |-> 0,         \* useState amount
    refreshing   |-> FALSE,     \* a bus change awaits its seat map
    submitting   |-> FALSE,     \* useState submitting
    payload      |-> NoPayload ] \* the insert in flight

\* refreshSeatStatus(busId): the rows of the RPC become the seat map.
refreshSeatStatus(busId) == get_seat_status(busId)

\* SeatButton: the button of a seat is disabled when inactive or taken.
SeatButtonDisabled(seat) == ~seat.is_active \/ seat.status = "taken"

\* zodResolver(schema) on the fields the form state holds: bus_id and
\* destination_id a uuid, seat_number a positive integer.
SchemaAccepts(f) == f.bus_id # NULL /\ f.destination_id # NULL /\ f.seat_number > 0

\* supabase.from("destinations").select("id,name,price").eq("active", true)
ActiveDestinations ==
  [d \in {id \in DOMAIN destinations : destinations[id].active} |->
     destinations[d].price]

\* The effect on [selectedDestination, destinations]: the amount becomes the
\* price the loaded list holds for the selected destination.
AmountEffect(f) ==
  IF f.selectedDestination # NULL /\ f.selectedDestination \in DOMAIN f.destinations
    THEN [f EXCEPT !.amount = f.destinations[f.selectedDestination]]
    ELSE f

\* Destination Select onValueChange, followed by the amount effect.
SelectDestination(c, v) ==
  /\ v \in DOMAIN form[c].destinations
  /\ ~form[c].submitting
  /\ form' = [form EXCEPT ![c] =
                AmountEffect([form[c] EXCEPT !.selectedDestination = v,
                                             !.destination_id = v])]
  /\ response' = NoResponse
  /\ UNCHANGED <<seats, bookings, adminList, destinations, pickup_points, request>>

\* The destination the passenger of session c picks from a loaded list: the
\* one of Details when the list offers it.
DestinationChoice(c, loaded) ==
  IF Details[c].destination_id \in DOMAIN loaded
    THEN Details[c].destination_id ELSE NULL

\* useEffect load(): first render of the page in a browser session, with
\* the passenger's first pick from the destination list it loaded.  The bus
\* list is read without ORDER BY, so any bus may come first.
LoadForm(c) ==
  /\ ~form[c].submitting
  /\ \E defaultBus \in Buses :
       form' = [form EXCEPT ![c] =
                  AmountEffect(
                    [FreshForm EXCEPT
                       !.destinations = ActiveDestinations,
                       !.selectedDestination = DestinationChoice(c, ActiveDestinations),
                       !.destination_id = DestinationChoice(c, ActiveDestinations),
                       !.selectedBus = defaultBus,
                       !.bus_id = defaultBus,
                       !.seatStatus = refreshSeatStatus(defaultBus)])]
  /\ response' = NoResponse
  /\ UNCHANGED <<seats, bookings, adminList, destinations, pickup_points, request>>

\* Bus Select onValueChange, up to its await.
BusChangeStart(c, v) ==
  /\ form[c].selectedBus # NULL
  /\ ~form[c].submitting
  /\ ~form[c].refreshing
  /\ v # form[c].selectedBus
  /\ form' = [form EXCEPT ![c].selectedBus = v,
                          ![c].bus_id = v,
                          ![c].refreshing = TRUE]
  /\ response' = NoResponse
  /\ UNCHANGED <<seats, bookings, adminList, destinations, pickup_points, request>>

\* Bus Select onValueChange, after the await: the seat map of the bus
\* arrives and the highlighted seat is cleared.
BusChangeFinish(c) ==
  /\ form[c].refreshing
  /\ form' = [form EXCEPT ![c].seatStatus = refreshSeatStatus(form[c].selectedBus),
                          ![c].selectedSeat = 0,
                          ![c].refreshing = FALSE]
  /\ response' = NoResponse
  /\ UNCHANGED <<seats, bookings, adminList, destinations, pickup_points, request>>

\* SeatMap onSelect through an enabled SeatButton.
SelectSeat(c, k) ==
  /\ k \in 1..Len(form[c].seatStatus)
  /\ ~form[c].submitting
  /\ ~SeatButtonDisabled(form[c].seatStatus[k])
  /\ form' = [form EXCEPT ![c].selectedSeat = form[c].seatStatus[k].seat_number,
                          ![c].seat_number = form[c].seatStatus[k].seat_number]
  /\ response' = NoResponse
  /\ UNCHANGED <<seats, bookings, adminList, destinations, pickup_points, request>>

\* payload = { ...values, amount }: only the keys of the schema and amount.
FormPayload(c) ==
  [ full_name       |-> Details[c].full_name,
    pickup_point_id |-> Details[c].pickup_point_id,
    destination_id  |-> form[c].destination_id,
    bus_id          |-> form[c].bus_id,
    seat_number     |-> form[c].seat_number,
    amount          |-> form[c].amount ]

\* The insert against the current tables: the unique index is checked when
\* the row is stored, the foreign keys after it (foreign_key_violation,
\* 23503).
InsertBooking(payload) ==
  LET res == BookingsInsert(bookings, payload)
  IN  IF /\ res.error = NULL
         /\ ~( /\ bookings_destination_id_fkey(destinations, res.rows)
               /\ bookings_pickup_point_id_fkey(pickup_points, res.rows) )
        THEN [error |-> "23503", rows |-> bookings]
        ELSE res

\* Book Seat pressed: onSubmit up to the await of the insert.
SubmitStart(c) ==
  /\ ~form[c].submitting
  /\ form[c].selectedSeat # 0
  /\ SchemaAccepts(form[c])
  /\ form' = [form EXCEPT ![c].submitting = TRUE,
                          ![c].payload = FormPayload(c)]
  /\ response' = NoResponse
  /\ UNCHANGED <<seats, bookings, adminList, destinations, pickup_points, request>>

\* onSubmit from the insert on: the storage layer decides, then the form
\* shows the outcome.  The seat map is refreshed for the bus that was
\* selected when Book Seat was pressed (the value the handler closed over).
SubmitFinish(c) ==
  /\ form[c].submitting
  /\ LET res == InsertBooking(form[c].payload)
     IN  /\ res.error # NULL \/ Len(bookings) < MaxBookings
         /\ bookings' = res.rows
         /\ IF res.error = NULL
              THEN /\ form' = [form EXCEPT
                         ![c].bus_id = NULL,              \* reset()
                         ![c].destination_id = NULL,
                         ![c].seat_number = 0,
                         ![c].selectedSeat = 0,
                         ![c].seatStatus =
                            SeatStatusQuery(seats, res.rows, form[c].payload.bus_id),
                         ![c].submitting = FALSE,
                         ![c].payload = NoPayload]
                   /\ response' = [op |-> "book", result |-> "Booking created",
                                   error |-> NULL, sms |-> NoSms]
              ELSE /\ form' = [form EXCEPT ![c].submitting = FALSE,
                                           ![c].payload = NoPayload]
                   /\ response' = [op |-> "book", result |-> "Booking failed",
                                   error |-> res.error, sms |-> NoSms]
  /\ UNCHANGED <<seats, adminList, destinations, pickup_points, request>>

(* ---------------------------------------------------------------------- *)
(* Admin back office: Bookings and Seats screens                           *)
(* ---------------------------------------------------------------------- *)

\* loadBookings(): the screen keeps its own copy of the rows' statuses.
loadBookings ==
  /\ adminList' = [i \in 1..Len(bookings) |-> bookings[i].status]
  /\ response' = NoResponse
  /\ UNCHANGED <<seats, bookings, form, destinations, pickup_points, request>>

\* The screen had it offered Cancel on a paid row as well.
StatusButtonsCancelPaid(shown) ==
  CASE shown = "pending"   -> {"paid", "cancelled"}
    [] shown = "cancelled" -> {"pending"}
    [] shown = "paid"      -> {"cancelled"}
    [] OTHER               -> {}

\* The status a button of the Bookings screen writes, given the status the
\* screen shows for the row: Mark Paid and Cancel on pending, Restore on
\* cancelled, nothing on paid.
StatusButtons(shown) ==
  CASE shown = "pending"   -> {"paid", "cancelled"}
    [] shown = "cancelled" -> {"pending"}
    [] OTHER               -> {}

\* The handler had it changed the list before looking at the error.
updateBookingStatusOptimistic(i, newStatus) ==
  /\ i \in 1..Len(adminList)
  /\ newStatus \in StatusButtons(adminList[i])
  /\ LET res == BookingsUpdate(bookings, bookings[i].id, [status |-> newStatus])
     IN  /\ bookings' = res.rows
         /\ adminList' = [adminList EXCEPT ![i] = newStatus]
         /\ response' = IF res.error = NULL
                          THEN [op |-> "admin", result |-> "Success",
                                error |-> NULL, sms |-> NoSms]
                          ELSE [op |-> "admin", result |-> "Error",
                                error |-> res.error, sms |-> NoSms]
  /\ UNCHANGED <<seats, form, destinations, pickup_points, request>>

\* updateBookingStatus(bookingId, newStatus) behind one of the buttons of
\* row i of the screen's list.
updateBookingStatus(i, newStatus) ==
  /\ i \in 1..Len(adminList)
  /\ newStatus \in StatusButtons(adminList[i])
  /\ LET res == BookingsUpdate(bookings, bookings[i].id, [status |-> newStatus])
     IN  /\ bookings' = res.rows
         /\ IF res.error = NULL
              THEN /\ adminList' = [adminList EXCEPT ![i] = newStatus]
                   /\ response' = [op |-> "admin", result |-> "Success",
                                   error |-> NULL, sms |-> NoSms]
              ELSE /\ adminList' = adminList
                   /\ response' = [op |-> "admin", result |-> "Error",
                                   error |-> res.error, sms |-> NoSms]
  /\ UNCHANGED <<seats, form, destinations, pickup_points, request>>

\* toggleSeatStatus(seatId, currentStatus): currentStatus is the flag the
\* operator's list shows for the seat, which another operator may have
\* changed since the list was loaded.
toggleSeatStatus(seat, currentStatus) ==
  /\ seat \in seats
  /\ seats' = (seats \ {seat}) \cup {[seat EXCEPT !.active = ~currentStatus]}
  /\ response' = NoResponse
  /\ UNCHANGED <<bookings, form, adminList, destinations, pickup_points, request>>

\* The update had it no filter on bus_id.
toggleAllSeatsEveryBus(selectedBusId, activate) ==
  /\ seats' = {[s EXCEPT !.active = activate] : s \in seats}
  /\ response' = NoResponse
  /\ UNCHANGED <<bookings, form, adminList, destinations, pickup_points, request>>

\* toggleAllSeats(activate) for the bus selected on the Seats screen.
toggleAllSeats(selectedBusId, activate) ==
  /\ seats' = {IF s.bus_id = selectedBusId THEN [s EXCEPT !.active = activate]
                                           ELSE s : s \in seats}
  /\ response' = NoResponse
  /\ UNCHANGED <<bookings, form, adminList, destinations, pickup_points, request>>

\* A table without the row of the given id.
WithoutRow(rows, id) == [d \in DOMAIN rows \ {id} |-> rows[d]]

\* Ids gen_random_uuid() may hand to a new destination row.
DestinationIds == {"d1", "d2"}

\* The edit had it also rewritten the amount of the bookings of the
\* destination.
DestinationsHandleSubmitRepricing(editingDestination, price, active) ==
  /\ price >= 0
  /\ editingDestination \in DOMAIN destinations
  /\ destinations' = [destinations EXCEPT
                        ![editingDestination] = [price |-> price, active |-> active]]
  /\ bookings' = [i \in 1..Len(bookings) |->
                    IF bookings[i].destination_id = editingDestination
                      THEN [bookings[i] EXCEPT !.amount = price]
                      ELSE bookings[i]]
  /\ response' = [op |-> "destinations.save", result |-> "Success",
                  error |-> NULL, sms |-> NoSms]
  /\ UNCHANGED <<seats, form, adminList, pickup_points, request>>

\* Destinations handleSubmit with the dialog showing the given price and
\* active flag: an update of the row being edited, or an insert when no row
\* is being edited (NULL).  The name typed is taken to be unique.  The
\* dialog may be editing a row another operator has deleted since.
DestinationsHandleSubmit(editingDestination, price, active) ==
  /\ IF price < 0
       THEN /\ destinations' = destinations
            /\ response' = [op |-> "destinations.save", result |-> "Error",
                            error |-> "Please enter a valid price", sms |-> NoSms]
       ELSE /\ IF editingDestination # NULL
                 THEN destinations' =
                        [d \in DOMAIN destinations |->
                           IF d = editingDestination
                             THEN [price |-> price, active |-> active]
                             ELSE destinations[d]]
                 ELSE \E id \in DestinationIds \ DOMAIN destinations :
                        destinations' =
                          [d \in DOMAIN destinations \cup {id} |->
                             IF d = id THEN [price |-> price, active |-> active]
                                       ELSE destinations[d]]
            /\ response' = [op |-> "destinations.save", result |-> "Success",
                            error |-> NULL, sms |-> NoSms]
  /\ UNCHANGED <<seats, bookings, form, adminList, pickup_points, request>>

\* Destinations handleDelete after the operator confirmed: the delete is
\* refused with foreign_key_violation (23503) when a booking row would be
\* left without its destination.
DestinationsHandleDelete(destination) ==
  /\ LET candidate == WithoutRow(destinations, destination)
     IN  IF bookings_destination_id_fkey(candidate, bookings)
           THEN /\ destinations' = candidate
                /\ response' = [op |-> "destinations.delete", result |-> "Success",
                                error |-> NULL, sms |-> NoSms]
           ELSE /\ destinations' = destinations
                /\ response' = [op |-> "destinations.delete", result |-> "Error",
                                error |-> "23503", sms |-> NoSms]
  /\ UNCHANGED <<seats, bookings, form, adminList, pickup_points, request>>

\* PickupPoints handleDelete after the operator confirmed.
PickupPointsHandleDelete(point) ==
  /\ LET candidate == pickup_points \ {point}
     IN  IF bookings_pickup_point_id_fkey(candidate, bookings)
           THEN /\ pickup_points' = candidate
                /\ response' = [op |-> "pickup_points.delete", result |-> "Success",
                                error |-> NULL, sms |-> NoSms]
           ELSE /\ pickup_points' = pickup_points
                /\ response' = [op |-> "pickup_points.delete", result |-> "Error",
                                error |-> "23503", sms |-> NoSms]
  /\ UNCHANGED <<seats, bookings, form, adminList, destinations, request>>

(* ---------------------------------------------------------------------- *)
(* Hubtel payment webhook                                                  *)
(* ---------------------------------------------------------------------- *)

\* payload.k of a parsed JSON body.
Field(payload, k) == IF k \in DOMAIN payload THEN payload[k] ELSE UNDEF

\* JavaScript truthiness of a string or undefined.
Truthy(x) == x \notin {UNDEF, ""}

\* a || b
OrElse(a, b) == IF Truthy(a) THEN a ELSE b

\* a ?? b
Nullish(a, b) == IF a = UNDEF THEN b ELSE a

\* Normalize keys.
PayloadStatus(p) ==
  OrElse(Field(p, "status"), OrElse(Field(p, "Status"),
    OrElse(Field(p, "transactionStatus"), Field(p, "TransactionStatus"))))

PayloadReference(p) ==
  OrElse(Field(p, "clientReference"), OrElse(Field(p, "ClientReference"),
    OrElse(Field(p, "checkoutId"), Field(p, "CheckoutId"))))

PayloadTransactionId(p) ==
  OrElse(Field(p, "transactionId"), Field(p, "TransactionId"))

PayloadReceiptUrl(p) ==
  OrElse(Field(p, "receiptUrl"), OrElse(Field(p, "ReceiptUrl"), Field(p, "receiptURL")))

\* The list had it also held the lower-case spelling.
paidStatesAnyCase ==
  {"Success", "Successful", "Completed", "PAID", "Paid", "success"}

paidStates == {"Success", "Successful", "Completed", "PAID", "Paid"}

\* A JSON value that is no string: the array ["Paid"].
JsArrayPaid == "array:[Paid]"

\* typeof x === "string"
TypeofString(x) == x \notin {UNDEF, JsArrayPaid}

\* typeof status === "string" && paidStates.includes(status)
isPaid(status) == TypeofString(status) /\ status \in paidStates

\* The updates object had payment_reference always been the reference.
WebhookUpdatesReferenceOnly(p) ==
  LET status        == PayloadStatus(p)
      reference     == PayloadReference(p)
      receiptUrl    == PayloadReceiptUrl(p)
  IN  ("payment_reference" :> reference)
        @@ (IF isPaid(status) THEN ("status" :> "paid") ELSE <<>>)
        @@ (IF Truthy(receiptUrl) THEN ("receipt_url" :> receiptUrl) ELSE <<>>)

\* The updates object had it set status cancelled on a failure report.
WebhookUpdatesFailureCancels(p) ==
  LET status        == PayloadStatus(p)
      reference     == PayloadReference(p)
      transactionId == PayloadTransactionId(p)
      receiptUrl    == PayloadReceiptUrl(p)
  IN  ("payment_reference" :> Nullish(transactionId, reference))
        @@ (IF isPaid(status) THEN ("status" :> "paid")
            ELSE IF status = "Failed" THEN ("status" :> "cancelled") ELSE <<>>)
        @@ (IF Truthy(receiptUrl) THEN ("receipt_url" :> receiptUrl) ELSE <<>>)

\* The updates object of the handler.
WebhookUpdates(p) ==
  LET status        == PayloadStatus(p)
      reference     == PayloadReference(p)
      transactionId == PayloadTransactionId(p)
      receiptUrl    == PayloadReceiptUrl(p)
  IN  ("payment_reference" :> Nullish(transactionId, reference))
        @@ (IF isPaid(status) THEN ("status" :> "paid") ELSE <<>>)
        @@ (IF Truthy(receiptUrl) THEN ("receipt_url" :> receiptUrl) ELSE <<>>)

\* Bodies the gateway delivers: each group of keys absent or present under
\* one of its spellings.
StatusParts ==
  { <<>>, ("status" :> "Success"), ("TransactionStatus" :> "Paid"),
    ("status" :> "success"), ("Status" :> "Failed") }

TransactionParts == { <<>>, ("transactionId" :> "T1") }

ReceiptParts == { <<>>, ("receiptUrl" :> "R1") }

\* References that name the first booking in the usual spelling, and the
\* others: another spelling, no booking, no uuid, none at all.
OtherReferenceParts ==
  { <<>>, ("CheckoutId" :> BookingIds[1]),
    ("clientReference" :> UnknownId), ("clientReference" :> MalformedId) }

WebhookPayloads ==
  { s @@ ("clientReference" :> BookingIds[1]) @@ t @@ u :
      s \in StatusParts, t \in TransactionParts, u \in ReceiptParts }
  \cup
  { s @@ r @@ ("TransactionId" :> "T1") @@ ("ReceiptUrl" :> "R1") :
      s \in StatusParts, r \in OtherReferenceParts }

\* Deno.serve handler of hubtel-webhook for a POST with body p.
Webhook(p) ==
  LET reference == PayloadReference(p)
  IN  IF ~Truthy(reference)
        THEN /\ response' = [op |-> "webhook", result |-> "200", error |-> NULL, sms |-> NoSms]
             /\ UNCHANGED <<seats, bookings, form, adminList,
                             destinations, pickup_points, request>>
        ELSE LET res == BookingsUpdate(bookings, reference, WebhookUpdates(p))
             IN  /\ bookings' = res.rows
                 /\ response' = IF res.error # NULL
                                  THEN [op |-> "webhook", result |-> "500",
                                        error |-> res.error, sms |-> NoSms]
                                  ELSE [op |-> "webhook", result |-> "200",
                                        error |-> NULL, sms |-> NoSms]
                 /\ UNCHANGED <<seats, form, adminList,
                                 destinations, pickup_points, request>>

\* Ways the confirmation SMS of a delivery ends: EdgeRuntime.waitUntil
\* throws; the booking has no usable phone number; the task throws before
\* the provider is called; the SMS credentials are not configured; the
\* provider accepts the message, answers an error, or the fetch throws.
SmsOutcomes ==
  { "schedule_failed", "no_recipient", "task_exception", "no_credentials",
    "sent", "provider_error", "fetch_exception" }

\* Requests made to the SMS provider for an outcome: sendSmsViaHubtel calls
\* fetch once and never again.
SmsAttempts(outcome) ==
  IF outcome \in {"sent", "provider_error", "fetch_exception"} THEN 1 ELSE 0

\* The handler had it awaited the SMS and let its failure reach the outer
\* catch.
WebhookSmsAwaited(p) ==
  LET reference == PayloadReference(p)
  IN  IF ~Truthy(reference)
        THEN /\ response' = [op |-> "webhook", result |-> "200", error |-> NULL,
                             sms |-> NoSms]
             /\ UNCHANGED <<seats, bookings, form, adminList,
                             destinations, pickup_points, request>>
        ELSE LET res == BookingsUpdate(bookings, reference, WebhookUpdates(p))
             IN  /\ bookings' = res.rows
                 /\ IF res.error # NULL
                      THEN response' = [op |-> "webhook", result |-> "500",
                                        error |-> res.error, sms |-> NoSms]
                      ELSE IF isPaid(PayloadStatus(p)) /\ res.matched # {}
                             THEN \E outcome \in SmsOutcomes :
                                    response' =
                                      IF outcome \in {"sent", "no_recipient", "no_credentials"}
                                        THEN [op |-> "webhook", result |-> "200",
                                              error |-> NULL, sms |-> outcome]
                                        ELSE [op |-> "webhook", result |-> "500",
                                              error |-> outcome, sms |-> outcome]
                             ELSE response' = [op |-> "webhook", result |-> "200",
                                               error |-> NULL, sms |-> NoSms]
                 /\ UNCHANGED <<seats, form, adminList,
                                 destinations, pickup_points, request>>

\* Deno.serve handler of the callback function that also confirms by SMS,
\* for a POST with body p.  The SMS task is scheduled after the update has
\* returned a row without error; it writes nothing to the tables.
WebhookSms(p) ==
  LET reference == PayloadReference(p)
  IN  IF ~Truthy(reference)
        THEN /\ response' = [op |-> "webhook", result |-> "200", error |-> NULL,
                             sms |-> NoSms]
             /\ UNCHANGED <<seats, bookings, form, adminList,
                             destinations, pickup_points, request>>
        ELSE LET res == BookingsUpdate(bookings, reference, WebhookUpdates(p))
             IN  /\ bookings' = res.rows
                 /\ IF res.error # NULL
                      THEN response' = [op |-> "webhook", result |-> "500",
                                        error |-> res.error, sms |-> NoSms]
                      ELSE IF isPaid(PayloadStatus(p)) /\ res.matched # {}
                             THEN \E outcome \in SmsOutcomes :
                                    response' = [op |-> "webhook", result |-> "200",
                                                 error |-> NULL, sms |-> outcome]
                             ELSE response' = [op |-> "webhook", result |-> "200",
                                               error |-> NULL, sms |-> NoSms]
                 /\ UNCHANGED <<seats, form, adminList,
                                 destinations, pickup_points, request>>

\* Request bodies: a JSON object, the JSON value null, text that is no JSON.
ObjectBody(p) == [kind |-> "object", payload |-> p]

NullBody == [kind |-> "null"]

UnparseableBody == [kind |-> "unparseable"]

\* payload = {} unless req.json() returns a value.
ReqJson(body) == IF body.kind = "object" THEN body.payload ELSE <<>>

\* The outer catch: reading payload.status of null throws a TypeError,
\* which is answered 500 before any table is touched.
HandlerException(body) ==
  /\ body.kind = "null"
  /\ response' = [op |-> "webhook", result |-> "500", error |-> "TypeError",
                  sms |-> NoSms]
  /\ UNCHANGED <<seats, bookings, form, adminList,
                  destinations, pickup_points, request>>

\* A POST to hubtel-webhook with the given body.
WebhookRequest(body) ==
  IF body.kind = "null" THEN HandlerException(body) ELSE Webhook(ReqJson(body))

\* A POST to the callback function that confirms by SMS.
WebhookSmsRequest(body) ==
  IF body.kind = "null" THEN HandlerException(body) ELSE WebhookSms(ReqJson(body))

(* ---------------------------------------------------------------------- *)
(* Hubtel create-payment endpoint                                          *)
(* ---------------------------------------------------------------------- *)

\* !x for a string or undefined.
Falsy(x) == ~Truthy(x)

\* !p.k for a field that holds a number when present.
FalsyNumber(p, k) == k \notin DOMAIN p \/ p[k] = 0

\* !bookingId || !amount || amount <= 0
InvalidPayload(p) ==
  \/ Falsy(Field(p, "bookingId"))
  \/ FalsyNumber(p, "amount")
  \/ p.amount <= 0

\* The secrets the function reads from its environment.
CredentialNames ==
  {"HUBTEL_CLIENT_ID", "HUBTEL_CLIENT_SECRET", "HUBTEL_MERCHANT_NUMBER"}

\* Deno.env.get(name) ?? ""
EnvGet(env, name) == Nullish(Field(env, name), "")

\* !HUBTEL_CLIENT_ID || !HUBTEL_CLIENT_SECRET || !HUBTEL_MERCHANT_NUMBER
MissingCredentials(env) ==
  \E name \in CredentialNames : Falsy(EnvGet(env, name))

\* The reply of the gateway to items/initiate: the fetch throws, or it
\* returns with res.ok and a body that is JSON (data) or not.
Unreachable == [kind |-> "unreachable"]

Reply(ok, data) == [kind |-> "reply", ok |-> ok, json |-> TRUE, data |-> data]

ReplyNotJson(ok) == [kind |-> "reply", ok |-> ok, json |-> FALSE]

\* data = await res.json().catch(() => ({}))
ReplyData(reply) == IF reply.json THEN reply.data ELSE <<>>

\* data?.responseCode || data?.ResponseCode
ResponseCode(data) == OrElse(Field(data, "responseCode"), Field(data, "ResponseCode"))

\* data?.data?.checkoutUrl || data?.Data?.CheckoutUrl
CheckoutUrl(data) ==
  OrElse(Field(data, "data.checkoutUrl"), Field(data, "Data.CheckoutUrl"))

\* The payload posted to the gateway.
InitiatePayload(p) ==
  [clientReference |-> Field(p, "bookingId"), totalAmount |-> Field(p, "amount")]

\* An answer of the function: the status, the error or the url of the
\* JSON body, the details of the gateway when given and the payload posted
\* to the gateway when it was called (each a sequence of at most one).
PaymentResponse(status, error, url, details, posted) ==
  [op |-> "create-payment", result |-> status, error |-> error, sms |-> NoSms,
   url |-> url, details |-> details, posted |-> posted]

\* The answer of the Deno.serve handler of hubtel-create-payment to a POST
\* with the given body, with the given secrets configured and the gateway
\* replying as given when called.  Reading the fields of a body that is no
\* JSON object, and a fetch that throws, end in the catch.
CreatePaymentAnswer(body, env, reply) ==
  IF body.kind # "object"
    THEN PaymentResponse("500", "exception", NULL, <<>>, <<>>)
  ELSE IF InvalidPayload(body.payload)
    THEN PaymentResponse("400", "Invalid payload", NULL, <<>>, <<>>)
  ELSE IF MissingCredentials(env)
    THEN PaymentResponse("500", "Missing Hubtel credentials", NULL, <<>>, <<>>)
  ELSE IF reply.kind = "unreachable"
    THEN PaymentResponse("500", "exception", NULL, <<>>,
                         <<InitiatePayload(body.payload)>>)
  ELSE IF \/ ~reply.ok
          \/ ResponseCode(ReplyData(reply)) # "0000"
          \/ ~Truthy(CheckoutUrl(ReplyData(reply)))
    THEN PaymentResponse("500", "Failed to initiate Hubtel checkout", NULL,
                         <<ReplyData(reply)>>, <<InitiatePayload(body.payload)>>)
  ELSE PaymentResponse("200", NULL, CheckoutUrl(ReplyData(reply)), <<>>,
                       <<InitiatePayload(body.payload)>>)

\* A POST reaches hubtel-create-payment: the request to serve, with what
\* its surroundings hold for it (the secrets configured, the reply the
\* gateway gives if it is called).
ReceiveCreatePayment(body, env, reply) ==
  /\ request = NoRequest
  /\ request' = <<[body |-> body, env |-> env, reply |-> reply]>>
  /\ response' = NoResponse
  /\ UNCHANGED <<seats, bookings, form, adminList, destinations, pickup_points>>

\* The handler had it marked the booking paid once the checkout exists.
CreatePaymentMarksPaid ==
  /\ request # NoRequest
  /\ response' = CreatePaymentAnswer(request[1].body, request[1].env, request[1].reply)
  /\ request' = NoRequest
  /\ bookings' = IF response'.result = "200"
                    THEN BookingsUpdate(bookings, response'.posted[1].clientReference,
                                        [status |-> "paid"]).rows
                    ELSE bookings
  /\ UNCHANGED <<seats, form, adminList, destinations, pickup_points>>

\* The Deno.serve handler of hubtel-create-payment serving the request: it
\* opens no storage client.
CreatePayment ==
  /\ request # NoRequest
  /\ response' = CreatePaymentAnswer(request[1].body, request[1].env, request[1].reply)
  /\ request' = NoRequest
  /\ UNCHANGED <<seats, bookings, form, adminList, destinations, pickup_points>>

(* ---------------------------------------------------------------------- *)
(* Specifications                                                          *)
(* ---------------------------------------------------------------------- *)

Init ==
  /\ seats = SeedSeats
  /\ bookings = <<>>
  /\ form = [c \in Clients |-> FreshForm]
  /\ adminList = <<>>
  /\ destinations = SeedDestinations
  /\ pickup_points = SeedPickupPoints
  /\ request = NoRequest
  /\ response = NoResponse

Statuses == {"pending", "paid", "cancelled"}

\* Callbacks for the first booking that carry a status and nothing else.
StatusOnlyPayloads ==
  { s @@ ("clientReference" :> BookingIds[1]) :
      s \in {("status" :> "Success"), ("Status" :> "Failed")} }

\* One passenger, the back office and the gateway.
Next ==
  \/ \E c \in {"c1"} : LoadForm(c)
  \/ \E c \in {"c1"} : \E k \in DOMAIN form[c].seatStatus : SelectSeat(c, k)
  \/ \E c \in {"c1"} : SubmitStart(c)
  \/ \E c \in {"c1"} : SubmitFinish(c)
  \/ loadBookings
  \/ \E i \in 1..MaxBookings, st \in Statuses : updateBookingStatus(i, st)
  \/ \E p \in StatusOnlyPayloads : Webhook(p)

Spec == Init /\ [][Next]_vars

\* Two passengers on the public form at the same time.
NextRace ==
  \/ \E c \in Clients : LoadForm(c)
  \/ \E c \in Clients, v \in Buses : BusChangeStart(c, v)
  \/ \E c \in Clients : BusChangeFinish(c)
  \/ \E c \in Clients : \E k \in DOMAIN form[c].seatStatus : SelectSeat(c, k)
  \/ \E c \in Clients : SubmitStart(c)
  \/ \E c \in Clients : SubmitFinish(c)

SpecRace == Init /\ [][NextRace]_vars

\* One passenger while an operator enables and disables seats.
NextSeats ==
  \/ \E c \in {"c1"} : LoadForm(c)
  \/ \E c \in {"c1"}, v \in Buses : BusChangeStart(c, v)
  \/ \E c \in {"c1"} : BusChangeFinish(c)
  \/ \E c \in {"c1"} : \E k \in DOMAIN form[c].seatStatus : SelectSeat(c, k)
  \/ \E c \in {"c1"} : SubmitStart(c)
  \/ \E c \in {"c1"} : SubmitFinish(c)
  \/ \E seat \in seats, currentStatus \in BOOLEAN :
       toggleSeatStatus(seat, currentStatus)
  \/ \E b \in Buses, activate \in BOOLEAN : toggleAllSeats(b, activate)

SpecSeats == Init /\ [][NextSeats]_vars

\* One passenger, the back office and every callback body.
NextWebhook ==
  \/ \E c \in {"c1"} : LoadForm(c)
  \/ \E c \in {"c1"} : \E k \in DOMAIN form[c].seatStatus : SelectSeat(c, k)
  \/ \E c \in {"c1"} : SubmitStart(c)
  \/ \E c \in {"c1"} : SubmitFinish(c)
  \/ loadBookings
  \/ \E i \in 1..MaxBookings, st \in Statuses : updateBookingStatus(i, st)
  \/ \E p \in WebhookPayloads : Webhook(p)

SpecWebhook == Init /\ [][NextWebhook]_vars

\* Callback bodies about the first booking: a success report with and
\* without transaction id and receipt URL, a paid report under the other
\* spellings, and a failure report.
PaymentReports ==
  { ("status" :> "Success") @@ ("clientReference" :> BookingIds[1]) @@ t @@ u :
      t \in TransactionParts, u \in ReceiptParts }
  \cup
  { ("TransactionStatus" :> "Paid") @@ ("CheckoutId" :> BookingIds[1])
      @@ ("TransactionId" :> "T1") @@ ("ReceiptUrl" :> "R1"),
    ("Status" :> "Failed") @@ ("clientReference" :> BookingIds[1])
      @@ ("transactionId" :> "T1") }

\* One passenger, the back office and the gateway reporting on the first
\* booking.
NextPayment ==
  \/ \E c \in {"c1"} : LoadForm(c)
  \/ \E c \in {"c1"} : \E k \in DOMAIN form[c].seatStatus : SelectSeat(c, k)
  \/ \E c \in {"c1"} : SubmitStart(c)
  \/ \E c \in {"c1"} : SubmitFinish(c)
  \/ loadBookings
  \/ \E i \in 1..MaxBookings, st \in Statuses : updateBookingStatus(i, st)
  \/ \E p \in PaymentReports : Webhook(p)

SpecPayment == Init /\ [][NextPayment]_vars

\* Request bodies about the first booking in and out of the paid
\* vocabulary, without reference, and with a reference that names no
\* booking or is no uuid.
MatchingPaidBodies ==
  { ObjectBody(("status" :> "Success") @@ ("clientReference" :> BookingIds[1])
                 @@ ("transactionId" :> "T1") @@ ("receiptUrl" :> "R1")),
    ObjectBody(("TransactionStatus" :> "Paid") @@ ("clientReference" :> BookingIds[1])) }

MatchingOtherBodies ==
  { ObjectBody(("status" :> "success") @@ ("clientReference" :> BookingIds[1])
                 @@ ("transactionId" :> "T1") @@ ("receiptUrl" :> "R1")),
    ObjectBody(("status" :> JsArrayPaid) @@ ("clientReference" :> BookingIds[1])),
    ObjectBody(("clientReference" :> BookingIds[1]) @@ ("transactionId" :> "T1")),
    ObjectBody(("Status" :> "Failed") @@ ("clientReference" :> BookingIds[1])) }

NoReferenceBodies ==
  { ObjectBody(("status" :> "Success") @@ ("TransactionId" :> "T1")
                 @@ ("ReceiptUrl" :> "R1")),
    ObjectBody(<<>>), UnparseableBody, NullBody }

UnmatchedBodies ==
  { ObjectBody(("status" :> "Success") @@ ("clientReference" :> UnknownId)
                 @@ ("transactionId" :> "T1")),
    ObjectBody(("status" :> "Success") @@ ("clientReference" :> MalformedId)) }

GatewayBodies ==
  MatchingPaidBodies \cup MatchingOtherBodies \cup NoReferenceBodies
    \cup UnmatchedBodies

\* The (bus_id, seat_number) keys of the seeded seat rows.
SeatKeys == { <<s.bus_id, s.seat_number>> : s \in SeedSeats }

\* Row i of a ledger as the form and the back office leave it.
LedgerRow(i, key, st) ==
  [ NewBookingRow(<<>>, [full_name |-> Details["c1"].full_name,
                         pickup_point_id |-> Details["c1"].pickup_point_id,
                         destination_id |-> Details["c1"].destination_id,
                         bus_id |-> key[1], seat_number |-> key[2],
                         amount |-> SeedDestinations[Details["c1"].destination_id].price])
      EXCEPT !.id = BookingIds[i], !.status = st ]

\* Payment reference and receipt URL a booking row may carry after callbacks
\* about it: none, or a reference with or without a receipt URL.
StoredMetadata ==
  { [payment_reference |-> NULL, receipt_url |-> NULL] }
  \cup
  { [payment_reference |-> r, receipt_url |-> u] :
      r \in {"T1", BookingIds[1]}, u \in {NULL, "R1"} }

\* Any ledger the form, the back office and earlier callbacks leave behind:
\* up to MaxBookings rows in any status that satisfy the partial unique
\* index, the first with any stored payment metadata.
InitLedger ==
  /\ seats = SeedSeats
  /\ \E n \in 0..MaxBookings :
       \E f \in [1..n -> SeatKeys \X Statuses] : \E m \in StoredMetadata :
         /\ bookings = [i \in 1..n |->
                          IF i = 1
                            THEN [LedgerRow(i, f[i][1], f[i][2]) EXCEPT
                                    !.payment_reference = m.payment_reference,
                                    !.receipt_url = m.receipt_url]
                            ELSE LedgerRow(i, f[i][1], f[i][2])]
         /\ idx_unique_active_booking(bookings)
  /\ form = [c \in Clients |-> FreshForm]
  /\ adminList = <<>>
  /\ destinations = SeedDestinations
  /\ pickup_points = SeedPickupPoints
  /\ request = NoRequest
  /\ response = NoResponse

\* The gateway posting to either callback function.
NextCallback ==
  \/ \E body \in GatewayBodies : WebhookRequest(body)
  \/ \E body \in GatewayBodies : WebhookSmsRequest(body)

SpecCallback == InitLedger /\ [][NextCallback]_vars

\* The Bookings screen of the back office and the callback function that
\* confirms by SMS, on any ledger.
NextBackOffice ==
  \/ loadBookings
  \/ \E i \in 1..MaxBookings, st \in Statuses : updateBookingStatus(i, st)
  \/ \E body \in MatchingPaidBodies \cup MatchingOtherBodies :
       WebhookSmsRequest(body)

SpecBackOffice == InitLedger /\ [][NextBackOffice]_vars

\* What an operator types into the price field, valid or not.
DialogPrices == Prices \cup {-5}

\* One passenger choosing a destination and booking while an operator
\* edits the price of the first destination.
NextPricing ==
  \/ \E c \in {"c1"} : LoadForm(c)
  \/ \E c \in {"c1"}, v \in DestinationIds : SelectDestination(c, v)
  \/ \E c \in {"c1"} : \E k \in DOMAIN form[c].seatStatus : SelectSeat(c, k)
  \/ \E c \in {"c1"} : SubmitStart(c)
  \/ \E c \in {"c1"} : SubmitFinish(c)
  \/ \E price \in DialogPrices : DestinationsHandleSubmit("d1", price, TRUE)

SpecPricing == Init /\ [][NextPricing]_vars

\* The operations that act on existing bookings, on any ledger: operators
\* editing the price of the destination booked, changing booking statuses
\* and toggling the seats of the first bus, and the gateway reporting on
\* the first booking.
NextLedger ==
  \/ \E price \in DialogPrices : DestinationsHandleSubmit("d1", price, TRUE)
  \/ loadBookings
  \/ \E i \in 1..MaxBookings, st \in Statuses : updateBookingStatus(i, st)
  \/ \E body \in MatchingPaidBodies \cup MatchingOtherBodies : WebhookRequest(body)
  \/ \E seat \in {q \in seats : q.bus_id = "b1" /\ q.seat_number = 1} :
       toggleSeatStatus(seat, seat.active)
  \/ \E activate \in BOOLEAN : toggleAllSeats("b1", activate)

SpecLedger == InitLedger /\ [][NextLedger]_vars

\* Operators deleting and adding destinations and pickup points and
\* changing booking statuses, on any ledger.
NextCatalog ==
  \/ \E d \in DestinationIds : DestinationsHandleDelete(d)
  \/ \E point \in SeedPickupPoints : PickupPointsHandleDelete(point)
  \/ \E price \in Prices : DestinationsHandleSubmit(NULL, price, TRUE)
  \/ loadBookings
  \/ \E i \in 1..MaxBookings, st \in Statuses : updateBookingStatus(i, st)

SpecCatalog == InitLedger /\ [][NextCatalog]_vars

\* Bodies posted to hubtel-create-payment: bookingId absent, empty or that
\* of the first booking; amount absent, zero, negative or positive; and
\* bodies that are no JSON object.
CreatePaymentBodies ==
  { ObjectBody(b @@ a) :
      b \in { <<>>, ("bookingId" :> ""), ("bookingId" :> BookingIds[1]) },
      a \in { <<>>, ("amount" :> 0), ("amount" :> -5), ("amount" :> 80) } }
  \cup {NullBody, UnparseableBody}

\* Every way the three secrets can be configured or not, and the client id
\* configured empty.
Environments ==
  { [name \in S |-> "configured"] : S \in SUBSET CredentialNames }
  \cup { ("HUBTEL_CLIENT_ID" :> "") @@ [name \in CredentialNames |-> "configured"] }

CheckoutPage == "https://pay.hubtel.com/checkout"

\* Replies of the gateway: success under either spelling, no code, another
\* code, no url, a failure status with a success body, a body that is no
\* JSON, no reply at all.
GatewayReplies ==
  { Reply(TRUE, ("responseCode" :> "0000") @@ ("data.checkoutUrl" :> CheckoutPage)),
    Reply(TRUE, ("ResponseCode" :> "0000") @@ ("Data.CheckoutUrl" :> CheckoutPage)),
    Reply(TRUE, ("data.checkoutUrl" :> CheckoutPage)),
    Reply(TRUE, ("responseCode" :> "2001") @@ ("data.checkoutUrl" :> CheckoutPage)),
    Reply(TRUE, ("responseCode" :> "0000")),
    Reply(FALSE, ("responseCode" :> "0000") @@ ("data.checkoutUrl" :> CheckoutPage)),
    ReplyNotJson(TRUE),
    Unreachable }

\* Requests to hubtel-create-payment, one at a time.
NextCreatePayment ==
  \/ \E body \in CreatePaymentBodies, env \in Environments, reply \in GatewayReplies :
       ReceiveCreatePayment(body, env, reply)
  \/ CreatePayment

SpecCreatePayment == Init /\ [][NextCreatePayment]_vars

\* All three secrets configured.
AllConfigured == [name \in CredentialNames |-> "configured"]

\* The gateway created the checkout.
CheckoutCreated ==
  Reply(TRUE, ("responseCode" :> "0000") @@ ("data.checkoutUrl" :> CheckoutPage))

\* One create-payment request per outcome, about the first booking: invalid
\* payload, no JSON object, missing secrets, a gateway failure, a checkout.
PaymentRequests ==
  LET valid == ObjectBody(("bookingId" :> BookingIds[1]) @@ ("amount" :> 80))
  IN  { <<ObjectBody(("bookingId" :> BookingIds[1]) @@ ("amount" :> 0)),
          AllConfigured, CheckoutCreated>>,
        <<NullBody, AllConfigured, CheckoutCreated>>,
        <<valid, <<>>, CheckoutCreated>>,
        <<valid, AllConfigured, Reply(TRUE, ("responseCode" :> "0000"))>>,
        <<valid, AllConfigured, CheckoutCreated>> }

\* Payment initiation next to the writers of booking statuses, on any
\* ledger: the create-payment endpoint, the gateway's callback and the
\* Bookings screen.
NextCheckout ==
  \/ \E r \in PaymentRequests : ReceiveCreatePayment(r[1], r[2], r[3])
  \/ CreatePayment
  \/ \E body \in MatchingPaidBodies : WebhookRequest(body)
  \/ loadBookings
  \/ \E i \in 1..MaxBookings, st \in Statuses : updateBookingStatus(i, st)

SpecCheckout == InitLedger /\ [][NextCheckout]_vars


\* Any table contents the constraints admit: every assignment of active
\* flags to the seats, every ledger of up to MaxBookings rows that
\* satisfies the partial unique index.
InitView ==
  /\ \E a \in [SeatKeys -> BOOLEAN] :
       seats = { [bus_id |-> k[1], seat_number |-> k[2], active |-> a[k]] :
                   k \in SeatKeys }
  /\ \E n \in 0..MaxBookings :
       \E f \in [1..n -> SeatKeys \X Statuses] :
         /\ bookings = [i \in 1..n |-> LedgerRow(i, f[i][1], f[i][2])]
         /\ idx_unique_active_booking(bookings)
  /\ form = [c \in Clients |-> FreshForm]
  /\ adminList = <<>>
  /\ destinations = SeedDestinations
  /\ pickup_points = SeedPickupPoints
  /\ request = NoRequest
  /\ response = NoResponse

\* The public form querying the seat status of one bus and another.
NextView ==
  \/ \E c \in {"c1"} : LoadForm(c)
  \/ \E c \in {"c1"}, v \in Buses : BusChangeStart(c, v)
  \/ \E c \in {"c1"} : BusChangeFinish(c)

SpecView == InitView /\ [][NextView]_vars

(* ---------------------------------------------------------------------- *)
(* Properties                                                              *)
(* ---------------------------------------------------------------------- *)

\* The rows of a ledger that hold seat n of bus b: pending or paid.
HoldersIn(rows, b, n) ==
  { i \in 1..Len(rows) : /\ rows[i].bus_id = b
                         /\ rows[i].seat_number = n
                         /\ rows[i].status \in {"pending", "paid"} }

\* Every (bus, seat) pair of the registry or of a booking row.
AllPairs ==
  SeatKeys \cup { <<bookings[i].bus_id, bookings[i].seat_number>> :
                    i \in 1..Len(bookings) }

\* C1: in every reachable state, whatever the interleaving of form inserts,
\* admin status updates and webhook deliveries, each (bus, seat) pair has at
\* most one booking row whose status is pending or paid.
C1_AtMostOneHolderPerSeat ==
  \A key \in AllPairs : Cardinality(HoldersIn(bookings, key[1], key[2])) <= 1

\* C1 witness: an insert has just been refused by the index while the ledger
\* holds a booking paid through the webhook and a cancelled one.
C1_Witness ==
  /\ response.op = "book" /\ response.error = "23505"
  /\ \E i \in 1..Len(bookings) :
       bookings[i].status = "paid" /\ bookings[i].payment_reference # NULL
  /\ \E i \in 1..Len(bookings) : bookings[i].status = "cancelled"

\* The insert of client c has been answered in this step.
InsertAnswered(c) == form[c].submitting /\ ~form'[c].submitting

\* The step added exactly one row, a pending booking of seat n of bus b.
CreatedPending(b, n) ==
  /\ Len(bookings') = Len(bookings) + 1
  /\ \A i \in 1..Len(bookings) : bookings'[i] = bookings[i]
  /\ bookings'[Len(bookings')].bus_id = b
  /\ bookings'[Len(bookings')].seat_number = n
  /\ bookings'[Len(bookings')].status = "pending"

\* C2: when two booking attempts for the same (bus, seat) are in flight at
\* once and nobody holds the pair, the attempt answered first creates one
\* pending booking and leaves the pair held by exactly that row; an attempt
\* answered while the pair is held is rejected with the unique violation
\* (SeatTaken) and adds no row.  So exactly one of the two succeeds.
C2_ExactlyOneOfTwoRacingAttempts ==
  [][ \A c \in Clients :
        InsertAnswered(c) =>
          LET b == form[c].payload.bus_id
              n == form[c].payload.seat_number
          IN  IF HoldersIn(bookings, b, n) = {}
                THEN /\ CreatedPending(b, n)
                     /\ response'.result = "Booking created"
                     /\ HoldersIn(bookings', b, n) = {Len(bookings')}
                ELSE /\ bookings' = bookings
                     /\ response'.result = "Booking failed"
                     /\ response'.error = "23505"
    ]_vars

\* C2 witness: two attempts for one free pair were in flight together; one
\* has just been answered with the created pending booking, the other is
\* still in flight for the pair that is now held.
C2_Witness ==
  /\ response.result = "Booking created"
  /\ Len(bookings) = 1
  /\ bookings[1].status = "pending"
  /\ <<bookings[1].bus_id, bookings[1].seat_number>> \in SeatKeys
  /\ \E c \in Clients :
       /\ form[c].submitting
       /\ form[c].payload.bus_id = bookings[1].bus_id
       /\ form[c].payload.seat_number = bookings[1].seat_number
       /\ bookings[1].full_name # Details[c].full_name

\* Seat n of bus b is registered and switched off.
SeatInactive(b, n) ==
  \E s \in seats : s.bus_id = b /\ s.seat_number = n /\ ~s.active

\* C3: a booking attempt for a seat that is inactive in the registry when the
\* attempt reaches storage is rejected with SeatInactive and leaves the
\* ledger unchanged.
C3_InactiveSeatRejected ==
  [][ \A c \in Clients :
        (InsertAnswered(c)
           /\ SeatInactive(form[c].payload.bus_id, form[c].payload.seat_number))
          => /\ bookings' = bookings
             /\ response'.result = "Booking failed"
             /\ response'.error = "SeatInactive"
    ]_vars

\* The entry of seat n in a seat-status result has the given status.
Reported(view, n, st) ==
  /\ \E k \in DOMAIN view : view[k].seat_number = n
  /\ \A k \in DOMAIN view : view[k].seat_number = n => view[k].status = st

\* A booking form payload for seat n of bus b.
PayloadFor(b, n) ==
  [full_name |-> Details["c1"].full_name,
   pickup_point_id |-> Details["c1"].pickup_point_id,
   destination_id |-> Details["c1"].destination_id,
   amount |-> SeedDestinations[Details["c1"].destination_id].price,
   bus_id |-> b, seat_number |-> n]

\* C4: the step that cancels the pending booking holding (B, N) leaves the
\* pair without holder, reported available and insertable in the very state
\* it produces; and a booking attempt answered while (B, N) has a cancelled
\* booking and no pending or paid one creates a pending booking.  The seat is
\* reported available or taken in the states before and after every step.
C4_CancelReleasesSeat ==
  [][ /\ \A i \in 1..Len(bookings) :
           ( /\ Len(bookings') = Len(bookings)
             /\ bookings[i].status = "pending"
             /\ bookings'[i].status = "cancelled" )
             => LET b == bookings[i].bus_id
                    n == bookings[i].seat_number
                IN  /\ Reported(SeatStatusQuery(seats, bookings, b), n, "taken")
                    /\ HoldersIn(bookings', b, n) = {}
                    /\ Reported(SeatStatusQuery(seats', bookings', b), n, "available")
                    /\ BookingsInsert(bookings', PayloadFor(b, n)).error = NULL
      /\ \A c \in Clients :
           InsertAnswered(c) =>
             LET b == form[c].payload.bus_id
                 n == form[c].payload.seat_number
             IN  ( /\ HoldersIn(bookings, b, n) = {}
                   /\ \E i \in 1..Len(bookings) :
                        /\ bookings[i].bus_id = b
                        /\ bookings[i].seat_number = n
                        /\ bookings[i].status = "cancelled" )
                   => /\ CreatedPending(b, n)
                      /\ response'.result = "Booking created"
    ]_vars

\* C4 witness: a booking has just been created for a pair whose earlier
\* booking is cancelled.
C4_Witness ==
  /\ response.result = "Booking created"
  /\ Len(bookings) = 2
  /\ bookings[1].status = "cancelled"
  /\ bookings[1].payment_reference = NULL
  /\ bookings[2].status = "pending"
  /\ bookings[2].bus_id = bookings[1].bus_id
  /\ bookings[2].seat_number = bookings[1].seat_number

\* C9: every step of the booking flow that adds a row to the ledger adds it
\* with status pending and with payment_reference and receipt_url unset.
C9_CreatedAsPending ==
  [][ Len(bookings') > Len(bookings) =>
        /\ Len(bookings') = Len(bookings) + 1
        /\ response'.op = "book"
        /\ bookings'[Len(bookings')].status = "pending"
        /\ bookings'[Len(bookings')].payment_reference = NULL
        /\ bookings'[Len(bookings')].receipt_url = NULL
    ]_vars

\* C9 witness: the form has just created the first booking of the ledger.
C9_Witness ==
  /\ response.op = "book" /\ response.result = "Booking created"
  /\ Len(bookings) = 1
  /\ bookings[1].status = "pending"
  /\ bookings[1].payment_reference = NULL
  /\ bookings[1].receipt_url = NULL
  /\ \A c \in Clients : ~form[c].submitting

\* The seat map client c shows was fetched for bus b and is not being
\* replaced.
ShowsMapOf(c, b) ==
  form[c].selectedBus = b /\ ~form[c].refreshing /\ ~form[c].submitting

\* The seat-status results to examine for bus b: the one the RPC returns in
\* this state and every seat map of b a form has just fetched.
ResultsFor(b) ==
  {get_seat_status(b)} \cup {form[c].seatStatus : c \in {d \in Clients : ShowsMapOf(d, b)}}

C6_OneEntryPerSeatAscending ==
  /\ seats_bus_id_seat_number_key(seats)
  /\ \A b \in Buses : \A v \in ResultsFor(b) :
       LET registered == {s.seat_number : s \in {r \in seats : r.bus_id = b}}
       IN  /\ {v[k].seat_number : k \in DOMAIN v} = registered
           /\ Len(v) = Cardinality(registered)
           /\ \A k \in 1..(Len(v) - 1) : v[k].seat_number < v[k + 1].seat_number

\* C6 witness: a form shows the two seats of b1 in order while the only
\* seat of b2 carries a booking.
C6_Witness ==
  /\ ShowsMapOf("c1", "b1")
  /\ Len(form["c1"].seatStatus) = 2
  /\ form["c1"].seatStatus[1].seat_number = 1
  /\ form["c1"].seatStatus[2].seat_number = 2
  /\ form["c1"].seatStatus[1].status = "available"
  /\ form["c1"].seatStatus[2].status = "available"
  /\ HoldersIn(bookings, "b2", 1) # {}

\* The (bus, seat) pairs registered in the seats table.
RegisteredPairs == { <<s.bus_id, s.seat_number>> : s \in seats }

PassengerData ==
  { [full_name |-> "Ama",  amount |-> 80,  payment_reference |-> NULL, receipt_url |-> NULL],
    [full_name |-> "Kofi", amount |-> 120, payment_reference |-> "T1", receipt_url |-> "R1"],
    [full_name |-> "Esi",  amount |-> 80,  payment_reference |-> "B1", receipt_url |-> NULL] }

\* The (bus, seat) pairs held by a pending or paid row.
HeldPairs(rows) ==
  { <<rows[i].bus_id, rows[i].seat_number>> :
      i \in {j \in 1..Len(rows) : rows[j].status \in ActiveStatuses} }

\* The ledgers that differ from rows in passenger, amount, payment reference
\* and receipt columns, and in which of pending and paid a holder is, and
\* hold the same pairs.
SameHoldersLedgers(rows) ==
  { alt \in { [i \in 1..Len(rows) |->
                 [rows[i] EXCEPT !.full_name = f[i][1].full_name,
                                 !.amount = f[i][1].amount,
                                 !.payment_reference = f[i][1].payment_reference,
                                 !.receipt_url = f[i][1].receipt_url,
                                 !.status = IF rows[i].status \in ActiveStatuses
                                              THEN f[i][2] ELSE rows[i].status]] :
              f \in [1..Len(rows) -> PassengerData \X ActiveStatuses] } :
      HeldPairs(alt) = HeldPairs(rows) }

\* C8: the result carries only seat number, activity and status, and for
\* every bus it is the same for any two ledgers that hold the same (bus,
\* seat) pairs over the same seats, whatever their passenger, amount,
\* payment reference and receipt columns.
C8_NoPassengerData ==
  \A b \in Buses :
    /\ \A v \in ResultsFor(b) : \A k \in DOMAIN v :
         DOMAIN v[k] = {"seat_number", "is_active", "status"}
    /\ \A alt \in SameHoldersLedgers(bookings) :
         SeatStatusQuery(seats, alt, b) = get_seat_status(b)

\* C8 witness: a form shows the map of b2 with its seat taken while the
\* ledger has two rows, a cancelled and a pending one.
C8_Witness ==
  /\ ShowsMapOf("c1", "b2")
  /\ Reported(form["c1"].seatStatus, 1, "taken")
  /\ Len(bookings) = 2
  /\ bookings[1].status = "cancelled"
  /\ bookings[2].status = "pending"
  /\ bookings[2].bus_id = "b2"

\* The bodies whose status is in the paid vocabulary and that carry a
\* reference.
PaidDeliveries ==
  { p \in PaymentReports : isPaid(PayloadStatus(p)) /\ Truthy(PayloadReference(p)) }

\* Body p is a delivery for booking row i in the paid vocabulary, handled in
\* this step.
PaidDeliveryFor(p, i) ==
  /\ response'.op = "webhook"
  /\ PayloadReference(p) = bookings[i].id
  /\ Webhook(p)

\* Row i after the step is paid and carries the delivery's transaction id
\* (the reference when none came) and receipt URL (the old one when none
\* came); the answer is 200.
MarkedPaid(p, i) ==
  /\ bookings'[i].status = "paid"
  /\ bookings'[i].payment_reference =
       (IF Truthy(PayloadTransactionId(p)) THEN PayloadTransactionId(p)
                                           ELSE PayloadReference(p))
  /\ bookings'[i].receipt_url =
       (IF Truthy(PayloadReceiptUrl(p)) THEN PayloadReceiptUrl(p)
                                        ELSE bookings[i].receipt_url)
  /\ response'.op = "webhook" /\ response'.result = "200"

\* C10 as stated: every delivery that names an existing booking with a
\* status of the paid vocabulary leaves the booking paid with the payment
\* reference and receipt URL of the delivery, and is answered 200.
C10_PaidDeliveryMarksPaid ==
  [][ \A p \in PaidDeliveries : \A i \in 1..Len(bookings) :
        PaidDeliveryFor(p, i) => MarkedPaid(p, i)
    ]_vars

\* C10 amended: such a delivery leaves the booking paid with the payment
\* reference and receipt URL of the delivery and is answered 200, unless the
\* booking is cancelled and another pending or paid booking holds its (bus,
\* seat): then the update is rejected by the unique index, the ledger is
\* unchanged and the answer is 500.
C10_PaidDeliveryMarksPaidUnlessSeatHeld ==
  [][ \A p \in PaidDeliveries : \A i \in 1..Len(bookings) :
        PaidDeliveryFor(p, i) =>
          IF /\ bookings[i].status = "cancelled"
             /\ HoldersIn(bookings, bookings[i].bus_id, bookings[i].seat_number) # {}
            THEN /\ bookings' = bookings
                 /\ response'.op = "webhook" /\ response'.result = "500"
            ELSE /\ MarkedPaid(p, i)
                 /\ \A j \in 1..Len(bookings) : j # i => bookings'[j] = bookings[j]
    ]_vars

\* C10 witness: a delivery with transaction id and receipt URL has just
\* turned the pending first booking into a paid one.
C10_Witness ==
  /\ response.op = "webhook" /\ response.result = "200"
  /\ Len(bookings) = 1
  /\ bookings[1].status = "paid"
  /\ bookings[1].payment_reference = "T1"
  /\ bookings[1].receipt_url = "R1"

\* The request with the given body is handled in this step by one of the
\* two callback functions.
Delivered(body) ==
  /\ response'.op = "webhook"
  /\ (WebhookRequest(body) \/ WebhookSmsRequest(body))

\* Row i carries after the step the payment reference and receipt URL of
\* payload p: the transaction id, or the reference when none came; the
\* receipt URL, or the old one when none came.
MetadataRecorded(p, i) ==
  /\ bookings'[i].payment_reference =
       (IF Truthy(PayloadTransactionId(p)) THEN PayloadTransactionId(p)
                                           ELSE PayloadReference(p))
  /\ bookings'[i].receipt_url =
       (IF Truthy(PayloadReceiptUrl(p)) THEN PayloadReceiptUrl(p)
                                        ELSE bookings[i].receipt_url)

\* C11: a delivery that names booking i turns it paid (when the update is
\* accepted) if its status is one of the strings Success, Successful,
\* Completed, PAID, Paid; with any other status (other casing, no string, no
\* status) the stored status of the booking stays as it was, the payment
\* reference and a supplied receipt URL are recorded, and the answer is 200.
C11_PaidVocabularyExact ==
  [][ \A body \in MatchingPaidBodies \cup MatchingOtherBodies :
        \A i \in 1..Len(bookings) :
          (PayloadReference(body.payload) = bookings[i].id /\ Delivered(body)) =>
            IF PayloadStatus(body.payload)
                 \in {"Success", "Successful", "Completed", "PAID", "Paid"}
              THEN response'.result = "200" => bookings'[i].status = "paid"
              ELSE /\ bookings'[i].status = bookings[i].status
                   /\ MetadataRecorded(body.payload, i)
                   /\ response'.result = "200"
                   /\ response'.sms = NoSms
    ]_vars

\* C11 witness: a delivery with status "success" has just recorded its
\* transaction id and receipt URL on the first booking, which stays pending.
C11_Witness ==
  /\ response.op = "webhook" /\ response.result = "200"
  /\ Len(bookings) >= 1
  /\ bookings[1].status = "pending"
  /\ bookings[1].payment_reference = "T1"
  /\ bookings[1].receipt_url = "R1"

\* Row i carries the payment reference and receipt URL payload p stores.
MetadataStored(p, i) ==
  /\ bookings[i].payment_reference =
       (IF Truthy(PayloadTransactionId(p)) THEN PayloadTransactionId(p)
                                           ELSE PayloadReference(p))
  /\ Truthy(PayloadReceiptUrl(p)) => bookings[i].receipt_url = PayloadReceiptUrl(p)

\* The state is one a delivery of the paid body for row i leaves when it is
\* accepted: answered 200, the row paid with the metadata of the body.
AcceptedOnce(body, i) ==
  /\ response.op = "webhook" /\ response.result = "200"
  /\ bookings[i].status = "paid"
  /\ MetadataStored(body.payload, i)

\* The state is one a delivery of the paid body for row i leaves when the
\* index rejects it: answered 500, the row cancelled and its seat held.
RejectedOnce(body, i) ==
  /\ response.op = "webhook" /\ response.result = "500"
  /\ response.error = "23505"
  /\ bookings[i].status = "cancelled"
  /\ HoldersIn(bookings, bookings[i].bus_id, bookings[i].seat_number) # {}

\* A delivery of the body from this state can be answered otherwise than
\* with the given code or can change the ledger.
AgainDiffers(body, code) ==
  ENABLED ( /\ (WebhookRequest(body) \/ WebhookSmsRequest(body))
            /\ ~(bookings' = bookings /\ response'.result = code) )

\* C12 as stated: in the state a paid delivery for a booking leaves, the
\* booking is paid and the same delivery again changes nothing and is
\* answered 200.
C12_ReplayAcceptedAndPaid ==
  \A body \in MatchingPaidBodies : \A i \in 1..Len(bookings) :
    (PayloadReference(body.payload) = bookings[i].id
       /\ (AcceptedOnce(body, i) \/ RejectedOnce(body, i)))
      => /\ bookings[i].status = "paid"
         /\ ~AgainDiffers(body, "200")

\* C12 amended: the same paid delivery again leaves the ledger as the first
\* left it and is answered as the first was: 200 with the booking paid when
\* the first was accepted, 500 with the booking still cancelled when the
\* booking is cancelled and its seat held by another booking.
C12_ReplaySameAsOnce ==
  \A body \in MatchingPaidBodies : \A i \in 1..Len(bookings) :
    PayloadReference(body.payload) = bookings[i].id =>
      /\ AcceptedOnce(body, i) => ~AgainDiffers(body, "200")
      /\ RejectedOnce(body, i) => ~AgainDiffers(body, "500")

\* C12 witness: a paid delivery without transaction id has just been
\* accepted for the first booking and its confirmation SMS sent.
C12_Witness ==
  /\ response.op = "webhook" /\ response.result = "200"
  /\ response.sms = "sent"
  /\ Len(bookings) >= 1
  /\ bookings[1].status = "paid"
  /\ bookings[1].payment_reference = BookingIds[1]

\* C13: a delivery without reference (no reference key at all, a body that
\* is no JSON, the JSON value null), whatever its status, is answered 200,
\* leaves the ledger as it is and schedules no SMS.
C13_NoReferenceAcknowledged ==
  [][ \A body \in NoReferenceBodies :
        Delivered(body) =>
          /\ response'.result = "200"
          /\ bookings' = bookings
          /\ response'.sms = NoSms
    ]_vars

\* The reference of the body is the id of no booking row.
NamesNoBooking(body) ==
  /\ Truthy(PayloadReference(ReqJson(body)))
  /\ \A i \in 1..Len(bookings) : bookings[i].id # PayloadReference(ReqJson(body))

\* C14: a delivery whose reference is the id of no booking, even with a
\* status of the paid vocabulary, is answered 200, leaves the ledger as it
\* is and schedules no SMS.
C14_UnmatchedAcknowledged ==
  [][ \A body \in GatewayBodies \ NoReferenceBodies :
        (NamesNoBooking(body) /\ Delivered(body)) =>
          /\ response'.result = "200"
          /\ bookings' = bookings
          /\ response'.sms = NoSms
    ]_vars

\* The storage update the handler issues for the body fails.
StorageUpdateFails(body) ==
  LET p == ReqJson(body)
  IN  /\ Truthy(PayloadReference(p))
      /\ BookingsUpdate(bookings, PayloadReference(p), WebhookUpdates(p)).error # NULL

\* C15: a delivery is answered 500 with an error message exactly when its
\* storage update fails, and then the ledger is unchanged and no SMS is
\* scheduled; every other delivery is answered 200.
C15_ErrorOnlyOnStorageFailure ==
  [][ \A body \in GatewayBodies :
        Delivered(body) =>
          /\ response'.result \in {"200", "500"}
          /\ response'.result = "500" <=> StorageUpdateFails(body)
          /\ response'.result = "500" =>
               /\ response'.error # NULL
               /\ bookings' = bookings
               /\ response'.sms = NoSms
    ]_vars

\* C16: when the callback function that confirms by SMS handles a paid
\* delivery for a booking and the update is accepted, the SMS is scheduled
\* with the booking already written as paid, and however the SMS ends the
\* answer is 200 and the booking is paid; no SMS is scheduled for an update
\* that was not accepted.
C16_SmsNeverFailsDelivery ==
  [][ \A body \in MatchingPaidBodies : \A i \in 1..Len(bookings) :
        (response'.op = "webhook"
           /\ PayloadReference(body.payload) = bookings[i].id
           /\ WebhookSmsRequest(body)) =>
          /\ response'.sms \in SmsOutcomes =>
               /\ bookings'[i].status = "paid"
               /\ response'.result = "200"
               /\ response'.error = NULL
          /\ response'.result = "200" =>
               /\ bookings'[i].status = "paid"
               /\ response'.sms \in SmsOutcomes
          /\ response'.result # "200" =>
               /\ bookings' = bookings
               /\ response'.sms = NoSms
    ]_vars

\* C16 witness: the SMS provider answered an error for the confirmation of
\* the first booking, which is paid, and the delivery was answered 200.
C16_Witness ==
  /\ response.op = "webhook" /\ response.result = "200"
  /\ response.sms = "provider_error"
  /\ Len(bookings) >= 1
  /\ bookings[1].status = "paid"
  /\ bookings[1].payment_reference = "T1"

\* The stored status of row i changes from one value to the other in this
\* step.
StatusMoves(i, from, to) ==
  /\ i \in 1..Len(bookings) /\ i \in 1..Len(bookings')
  /\ bookings[i].status = from
  /\ bookings'[i].status = to

\* C17: every step that turns the stored status of a booking into paid,
\* whether a callback or Mark Paid, starts the confirmation SMS, which makes
\* at most one request to the SMS provider.
C17_PaidTransitionSendsSms ==
  [][ \A i \in 1..Len(bookings) :
        (StatusMoves(i, "pending", "paid") \/ StatusMoves(i, "cancelled", "paid")) =>
          /\ response'.sms \in SmsOutcomes
          /\ SmsAttempts(response'.sms) <= 1
    ]_vars

\* C18: every change of a stored status is pending->paid, pending->cancelled,
\* cancelled->pending or paid->cancelled, the last two by the back office
\* only, and a callback changes a status from pending to paid only.
C18_OnlyLifecycleTransitions ==
  [][ \A i \in 1..Len(bookings) :
        bookings'[i].status # bookings[i].status =>
          /\ <<bookings[i].status, bookings'[i].status>> \in
               { <<"pending", "paid">>, <<"pending", "cancelled">>,
                 <<"cancelled", "pending">>, <<"paid", "cancelled">> }
          /\ response'.op = "webhook" => StatusMoves(i, "pending", "paid")
          /\ (StatusMoves(i, "cancelled", "pending") \/ StatusMoves(i, "paid", "cancelled"))
               => response'.op = "admin"
    ]_vars

\* C19: no step of the Bookings screen, even on a list loaded before
\* another writer changed the booking, turns a stored status from paid into
\* pending.
C19_AdminNeverUnpays ==
  [][ \A i \in 1..Len(bookings) :
        response'.op = "admin" => ~StatusMoves(i, "paid", "pending")
    ]_vars

\* Row i is on the Bookings screen with the given status, which is also its
\* stored status.
ShownAs(i, st) ==
  /\ i \in 1..Len(adminList)
  /\ adminList[i] = st
  /\ bookings[i].status = st

\* A button of row i writes the given status and the write is accepted.
CanPerform(i, to) ==
  ENABLED (updateBookingStatus(i, to) /\ bookings'[i].status = to)

\* C20 as stated: on a row shown with its current status the screen can
\* perform pending->paid, pending->cancelled, cancelled->pending and
\* paid->cancelled.
C20_AllFourTransitionsOffered ==
  \A i \in 1..Len(adminList) :
    /\ ShownAs(i, "pending") => CanPerform(i, "paid") /\ CanPerform(i, "cancelled")
    /\ ShownAs(i, "cancelled") => CanPerform(i, "pending")
    /\ ShownAs(i, "paid") => CanPerform(i, "cancelled")

\* C20 amended: on a row shown with its current status the screen can
\* perform pending->paid and pending->cancelled, and cancelled->pending
\* exactly when no pending or paid booking holds the seat of the row; a row
\* shown as paid has no action.
C20_TransitionsOffered ==
  \A i \in 1..Len(adminList) :
    /\ ShownAs(i, "pending") => CanPerform(i, "paid") /\ CanPerform(i, "cancelled")
    /\ ShownAs(i, "cancelled") =>
         (CanPerform(i, "pending")
            <=> HoldersIn(bookings, bookings[i].bus_id, bookings[i].seat_number) = {})
    /\ adminList[i] = "paid" =>
         \A to \in Statuses : ~ENABLED updateBookingStatus(i, to)

\* C20 witness: Mark Paid has just been accepted for the first booking,
\* which the screen now shows as paid, next to a cancelled second one.
C20_Witness ==
  /\ response.op = "admin" /\ response.result = "Success"
  /\ Len(adminList) = 2
  /\ ShownAs(1, "paid")
  /\ ShownAs(2, "cancelled")

\* C21: no step of an operator editing a destination's price, of a webhook
\* delivery, of an admin status change or of a seat toggle removes a booking
\* row or alters its identity or the amount stored on it.
C21_AmountNeverChanges ==
  [][ /\ Len(bookings') >= Len(bookings)
      /\ \A i \in 1..Len(bookings) :
           /\ bookings'[i].id = bookings[i].id
           /\ bookings'[i].amount = bookings[i].amount
    ]_vars

\* C21 witness: the price of a destination has just been edited to a value
\* that differs from the amount of a paid booking of that destination.
C21_Witness ==
  /\ response.op = "destinations.save" /\ response.result = "Success"
  /\ \E i \in 1..Len(bookings) :
       /\ bookings[i].status = "paid"
       /\ bookings[i].destination_id \in DOMAIN destinations
       /\ destinations[bookings[i].destination_id].price # bookings[i].amount

\* C22: every step that adds a booking row stores on it, as amount, the
\* price the destinations table holds for the row's destination at that
\* moment, also when the price was edited after the form loaded its list.
C22_AmountIsCurrentPrice ==
  [][ Len(bookings') > Len(bookings) =>
        LET new == bookings'[Len(bookings')]
        IN  /\ new.destination_id \in DOMAIN destinations
            /\ new.amount = destinations[new.destination_id].price
    ]_vars

\* Some booking row, whatever its status, references destination d.
DestinationReferenced(d) ==
  \E i \in 1..Len(bookings) : bookings[i].destination_id = d

\* Some booking row, whatever its status, references the pickup point.
PickupPointReferenced(point) ==
  \E i \in 1..Len(bookings) : bookings[i].pickup_point_id = point

\* C23: a delete of a destination or pickup point that at least one booking
\* row of any status references is rejected (23503) and leaves both
\* reference tables and every booking unchanged; a delete of one that no
\* booking references succeeds, removes that row alone and changes no booking.
C23_ReferencedDeleteRejected ==
  [][ /\ \A d \in DOMAIN destinations :
           (response'.op = "destinations.delete" /\ DestinationsHandleDelete(d))
             => IF DestinationReferenced(d)
                  THEN /\ response'.result = "Error"
                       /\ response'.error = "23503"
                       /\ destinations' = destinations
                       /\ pickup_points' = pickup_points
                       /\ bookings' = bookings
                  ELSE /\ response'.result = "Success"
                       /\ destinations' = WithoutRow(destinations, d)
                       /\ pickup_points' = pickup_points
                       /\ bookings' = bookings
      /\ \A point \in pickup_points :
           (response'.op = "pickup_points.delete" /\ PickupPointsHandleDelete(point))
             => IF PickupPointReferenced(point)
                  THEN /\ response'.result = "Error"
                       /\ response'.error = "23503"
                       /\ destinations' = destinations
                       /\ pickup_points' = pickup_points
                       /\ bookings' = bookings
                  ELSE /\ response'.result = "Success"
                       /\ pickup_points' = pickup_points \ {point}
                       /\ destinations' = destinations
                       /\ bookings' = bookings
    ]_vars

\* C23 witness: the delete of a destination has just been rejected while
\* every booking that references it is cancelled, after an unreferenced
\* pickup point was deleted.
C23_Witness ==
  /\ response.op = "destinations.delete" /\ response.error = "23503"
  /\ Len(bookings) >= 1
  /\ \A i \in 1..Len(bookings) : bookings[i].status = "cancelled"
  /\ pickup_points # SeedPickupPoints
  /\ DOMAIN destinations = DOMAIN SeedDestinations

\* The seat numbers of bus b with the status the seat status query reports
\* for each, over given table contents.
StatusBySeat(seatRows, bookingRows, b) ==
  LET view == SeatStatusQuery(seatRows, bookingRows, b)
  IN  { <<view[k].seat_number, view[k].status>> : k \in DOMAIN view }

\* C24: a step that changes the seat registry is a toggle of one seat or of
\* all seats of one bus; it changes no booking row, adds and removes no
\* seat, leaves every seat other than the targeted ones (in particular those
\* of other buses) as it was, and the status reported for every seat of
\* every bus is the same before and after.
C24_ToggleChangesOnlyActiveFlag ==
  [][ seats' # seats =>
        /\ bookings' = bookings
        /\ { <<s.bus_id, s.seat_number>> : s \in seats' }
             = { <<s.bus_id, s.seat_number>> : s \in seats }
        /\ Cardinality(seats') = Cardinality(seats)
        /\ \/ \E seat \in seats : seats' \ {[seat EXCEPT !.active = ~seat.active]}
                                      = seats \ {seat}
           \/ \E b \in Buses, activate \in BOOLEAN :
                /\ \A q \in seats : q.bus_id # b => q \in seats'
                /\ \A q \in seats' : q.bus_id = b => q.active = activate
        /\ \A b \in Buses :
             StatusBySeat(seats', bookings', b) = StatusBySeat(seats, bookings, b)
    ]_vars

\* C24 witness: a seat held by a pending booking is switched off and still
\* reported taken, while a seat of the other bus is switched on.
C24_Witness ==
  \E i \in 1..Len(bookings) :
    /\ bookings[i].status = "pending"
    /\ SeatInactive(bookings[i].bus_id, bookings[i].seat_number)
    /\ Reported(get_seat_status(bookings[i].bus_id), bookings[i].seat_number, "taken")
    /\ \E s \in seats : s.bus_id # bookings[i].bus_id /\ s.active

\* The (bus, seat) pair of the insert client c has in flight.
PairInFlight(c) == <<form[c].payload.bus_id, form[c].payload.seat_number>>

\* C25: an answered booking attempt for (B, N) is accepted exactly when no
\* pending or paid booking exists for (B, N); it leaves the holders of every
\* other pair as they were, and every other attempt in flight for a
\* different pair without holder would still be accepted afterwards.
C25_DistinctPairsIndependent ==
  [][ \A c \in Clients :
        InsertAnswered(c) =>
          /\ response'.result = "Booking created"
               <=> HoldersIn(bookings, PairInFlight(c)[1], PairInFlight(c)[2]) = {}
          /\ \A key \in AllPairs \cup {PairInFlight(d) : d \in {e \in Clients : form[e].submitting}} :
               key # PairInFlight(c)
                 => HoldersIn(bookings', key[1], key[2]) = HoldersIn(bookings, key[1], key[2])
          /\ \A d \in Clients \ {c} :
               ( /\ form[d].submitting
                 /\ PairInFlight(d) # PairInFlight(c)
                 /\ HoldersIn(bookings, PairInFlight(d)[1], PairInFlight(d)[2]) = {} )
                 => BookingsInsert(bookings', form[d].payload).error = NULL
    ]_vars

\* C25 witness: two attempts for different seats of one bus were in flight
\* together; one has just been accepted and the other, still in flight, is
\* for a seat without holder.
C25_Witness ==
  /\ response.result = "Booking created"
  /\ Len(bookings) = 1
  /\ bookings[1].status = "pending"
  /\ \E c \in Clients :
       /\ form[c].submitting
       /\ form[c].payload.bus_id = bookings[1].bus_id
       /\ form[c].payload.seat_number # bookings[1].seat_number
       /\ form[c].payload.full_name # bookings[1].full_name
       /\ HoldersIn(bookings, form[c].payload.bus_id, form[c].payload.seat_number) = {}

\* The request body carries no bookingId.
BookingIdMissing(body) ==
  \/ body.kind # "object"
  \/ "bookingId" \notin DOMAIN body.payload
  \/ body.payload.bookingId = ""

\* The request body carries no amount, or one that is not positive.
AmountMissingOrNotPositive(body) ==
  \/ body.kind # "object"
  \/ "amount" \notin DOMAIN body.payload
  \/ body.payload.amount <= 0

\* One of the three secrets is not configured.
CredentialUnconfigured(env) ==
  \E name \in CredentialNames : name \notin DOMAIN env \/ env[name] = ""

\* The gateway answered HTTP-ok with response code "0000" and a checkout URL.
GatewaySucceeded(reply) ==
  /\ reply.kind = "reply"
  /\ reply.ok
  /\ reply.json
  /\ \E k \in {"responseCode", "ResponseCode"} :
       k \in DOMAIN reply.data /\ reply.data[k] = "0000"
  /\ \E k \in {"data.checkoutUrl", "Data.CheckoutUrl"} : k \in DOMAIN reply.data

\* C26: the answer to a create-payment request is 400 without a call to the
\* gateway when bookingId is missing or amount is missing or not positive;
\* otherwise 500 without a call when a secret is unconfigured; otherwise the
\* gateway is called with clientReference = bookingId and the answer is 200
\* with the checkout URL exactly when the gateway answered HTTP-ok with code
\* "0000" and a checkout URL, and 500 (with the gateway's body as details
\* when it sent one) in every other case.
C26_CreatePaymentDecisionOrder ==
  [][ (request # NoRequest /\ response'.op = "create-payment") =>
        LET body   == request[1].body
            env    == request[1].env
            reply  == request[1].reply
            answer == response'
        IN  IF BookingIdMissing(body) \/ AmountMissingOrNotPositive(body)
              THEN answer.result = "400" /\ answer.posted = <<>>
            ELSE IF CredentialUnconfigured(env)
              THEN answer.result = "500" /\ answer.posted = <<>>
            ELSE /\ Len(answer.posted) = 1
                 /\ answer.posted[1].clientReference = body.payload.bookingId
                 /\ IF GatewaySucceeded(reply)
                      THEN /\ answer.result = "200"
                           /\ answer.url = CheckoutPage
                      ELSE /\ answer.result = "500"
                           /\ answer.url = NULL
                           /\ (reply.kind = "reply" /\ reply.json)
                                => answer.details = <<reply.data>>
    ]_vars

\* Booking row i is cancelled and another row holds its (bus, seat) pair.
CancelledWhileSeatHeld(i) ==
  /\ bookings[i].status = "cancelled"
  /\ HoldersIn(bookings, bookings[i].bus_id, bookings[i].seat_number) # {}

\* C27: a Restore of a cancelled booking whose (bus, seat) pair is held by
\* another pending or paid booking is rejected with the unique violation;
\* every booking keeps its stored status and the list of the screen still
\* shows the booking as cancelled.
C27_RestoreRejectedWhileSeatHeld ==
  [][ \A i \in 1..Len(bookings) :
        ( /\ response'.op = "admin"
          /\ ShownAs(i, "cancelled")
          /\ CancelledWhileSeatHeld(i)
          /\ updateBookingStatus(i, "pending") )
          => /\ response'.result = "Error"
             /\ response'.error = "23505"
             /\ bookings' = bookings
             /\ adminList' = adminList
             /\ adminList'[i] = "cancelled"
    ]_vars

\* C27 witness: a Restore has just been rejected; the booking is still
\* stored and shown as cancelled and its seat is held by a later booking.
C27_Witness ==
  /\ response.op = "admin" /\ response.error = "23505"
  /\ \E i \in 1..Len(bookings) :
       /\ ShownAs(i, "cancelled")
       /\ CancelledWhileSeatHeld(i)
       /\ \E j \in HoldersIn(bookings, bookings[i].bus_id, bookings[i].seat_number) :
            j > i

\* Client c presses Book Seat in this step: its insert is issued.
InsertIssued(c) == ~form[c].submitting /\ form'[c].submitting

\* The seat map client c shows is the one loaded for bus b, and it shows
\* seat n as active and available.
MapOffers(c, b, n) ==
  /\ form[c].selectedBus = b
  /\ ~form[c].refreshing
  /\ \E k \in DOMAIN form[c].seatStatus :
       /\ form[c].seatStatus[k].seat_number = n
       /\ form[c].seatStatus[k].is_active
       /\ form[c].seatStatus[k].status = "available"

\* C28: every insert the form issues carries a (bus_id, seat_number) pair
\* that the seat map loaded for that bus shows as active and available when
\* Book Seat is pressed; a seat number chosen on the map of the previously
\* selected bus is never submitted for the newly selected bus.
C28_SubmittedSeatWasOfferedForBus ==
  [][ \A c \in Clients :
        InsertIssued(c) =>
          MapOffers(c, form'[c].payload.bus_id, form'[c].payload.seat_number)
    ]_vars

\* C29: a webhook delivery adds and removes no booking row; when it changes
\* the status of a row the new status is paid, so no row becomes pending or
\* cancelled and a paid row stays paid under every later delivery.
C29_WebhookWritesOnlyPaid ==
  [][ /\ Len(bookings') = Len(bookings)
      /\ \A i \in 1..Len(bookings) :
           /\ bookings'[i].status # bookings[i].status => bookings'[i].status = "paid"
           /\ bookings[i].status = "paid" => bookings'[i].status = "paid"
    ]_vars

\* C29 witness: a delivery without a paid status has just been accepted for
\* a paid booking: it recorded its transaction id and the booking is still
\* paid, next to a cancelled booking.
C29_Witness ==
  /\ response.op = "webhook" /\ response.result = "200"
  /\ Len(bookings) = 2
  /\ bookings[1].status = "paid"
  /\ bookings[1].payment_reference = "T1"
  /\ bookings[1].receipt_url = NULL
  /\ bookings[2].status = "cancelled"

\* C30: a step that answers a create-payment request leaves the booking
\* ledger and the seat registry as they were, whatever the answer (400, 500
\* or 200), and so does the arrival of the request; every step that changes
\* the status of a booking is a webhook delivery or an action of the
\* Bookings screen.
C30_CreatePaymentTouchesNoTable ==
  [][ /\ (request' # request \/ response'.op = "create-payment")
           => bookings' = bookings /\ seats' = seats
      /\ (\E i \in 1..Len(bookings) : bookings'[i].status # bookings[i].status)
           => response'.op \in {"webhook", "admin"}
    ]_vars

\* C30 witness: a checkout URL has just been returned for a booking that is
\* still pending, next to a paid booking.
C30_Witness ==
  /\ response.op = "create-payment" /\ response.result = "200"
  /\ Len(response.posted) = 1
  /\ Len(bookings) = 2
  /\ bookings[1].id = response.posted[1].clientReference
  /\ bookings[1].status = "pending"
  /\ bookings[2].status = "paid"

====
